---- MODULE Spec2Model ----
(***************************************************************************)
(* Model of the censoredplanet-analysis beam pipeline                      *)
(* (src/pipeline/beam_tables.py, src/pipeline/metadata/maxmind.py).        *)
(*                                                                         *)
(*   Spec         the metadata join, ScanDataBeamPipelineRunner            *)
(*                ._add_metadata and ._add_ip_metadata, as the dataflow    *)
(*                graph beam executes: per-element stages interleave,      *)
(*                GroupByKey / CoGroupByKey are barriers.                  *)
(*   SelectSpec   the source selector, ._data_to_load.                     *)
(*   DatesSpec    the pure function _between_dates.                        *)
(*   FilenameSpec the pure function _filename_matches.                     *)
(***************************************************************************)
EXTENDS Integers, Sequences, FiniteSets, Bags, TLC

(***************************************************************************)
(* Bounds of the model.                                                    *)
(***************************************************************************)
MaxRows == 3
\* rows entering _add_metadata

MaxWorkers == 2
\* workers a date group may be scheduled on

MaxDate == 3
\* date stamps a path, start_date and end_date range over (_between_dates)

MaxStamps == 2
\* YYYY-MM-DD stamps one path may hold (_between_dates)

MaxNameParts == 3
\* dot-separated parts of a terminal filename (_filename_matches)

MaxSourceDate == 2
\* date stamps of the sources in the bucket (_data_to_load)

MaxFiles == 2
\* objects gcs.match lists (_data_to_load)

\* row dates are 'YYYY-MM-DD' strings, ips are dotted strings
JoinDates == {"2021-01-01", "2021-01-02"}

Ips == {"1.1.1.1", "9.9.9.9"}

Workers == 1..MaxWorkers

Domains == {"a.com", "b.com"}

VARIABLES
    \* ---- the metadata join (_add_metadata) ----
    rows,       \* bag of rows that entered _add_metadata
    keyed,      \* rows_keyed_by_ip_and_date not yet through the co-group
    stage,      \* "keying" | "lookup" | "done" | "failed" ("idle" elsewhere)
    groups,     \* grouped_ips_by_dates elements not yet handed to _add_ip_metadata
    active,     \* running _add_ip_metadata generators
    made,       \* made[w][d]: make_chooser(d) calls that returned on worker w
    failedDates,\* dates whose make_chooser call raised
    lookups,    \* lookups[key]: get_metadata calls made for key
    served,     \* <<date, chooser instance>> of every get_metadata call
    metadata,   \* bag ips_with_metadata of <<key, values>>
    out,        \* bag rows_with_metadata
    opened,     \* choosers whose maxmind readers were opened and not closed
    \* ---- the source selector (_data_to_load and its predicates) ----
    listing,    \* what gcs.match returns: sequence of [path, size]
    scanType,   \* scan_type
    incremental,\* incremental_load
    startDate,  \* start_date or None
    endDate,    \* end_date or None
    existing,   \* sources present at the destination
    result,     \* what the call returned; Unset before the call
    \* ---- FlattenMeasurement.process over the lines of one file ----
    flLines,    \* the lines of the file
    flCalls,    \* flCalls[i]: process calls made on line i
    flRows,     \* rows yielded so far
    flUuids,    \* uuid.uuid4() draws made so far
    flRaised,   \* a process call raised
    \* ---- run_beam_pipeline, run after run on one destination ----
    destIsGcs,  \* the destination string starts with 'gs://'
    dest,       \* what the destination holds: [source, run, incr]
    runNo,      \* runs started so far
    exportGcs,  \* export_gcs of the current run
    pc,         \* where the current run is; "idle" between runs
    events,     \* what the current run has done outside the process
    produced,   \* sources of the rows the current run flattened
    destBefore, \* dest when the current run started
    outcome,    \* "none" | "success" | "error" of the current run
    prev        \* the run before the current one

joinVars == <<rows, keyed, stage, groups, active, made, failedDates, lookups,
              served, metadata, out, opened>>

selectVars == <<listing, scanType, incremental, startDate, endDate, existing,
                result>>

flatVars == <<flLines, flCalls, flRows, flUuids, flRaised>>

runVars == <<destIsGcs, dest, runNo, exportGcs, pc, events, produced,
             destBefore, outcome, prev>>

vars == <<joinVars, selectVars, flatVars, runVars>>

\* Python's None. Every modelled value is a tuple, a record, a set, a
\* boolean or a number that is never compared with None.
None == <<>>

\* the value of `result` before the modelled call has run
Unset == [op |-> "unset"]

(***************************************************************************)
(* Bag helpers (a PCollection is a bag).                                   *)
(***************************************************************************)
RECURSIVE BagSum(_, _)
BagSum(b, S) ==
    IF S = {} THEN 0
    ELSE LET e == CHOOSE x \in S : TRUE
         IN  b[e] + BagSum(b, S \ {e})

\* the sub-bag of the (key, value) pairs of kv that have the key
WithKey(kv, key) == [e \in {x \in DOMAIN kv : x[1] = key} |-> kv[e]]

\* the sub-bag of the (key, value) pairs of kv that have another key
WithoutKey(kv, key) == [e \in {x \in DOMAIN kv : x[1] # key} |-> kv[e]]

One(e) == SetToBag({e})

(***************************************************************************)
(* Rows and keys.                                                          *)
(***************************************************************************)
Row == [date : JoinDates, ip : Ips, domain : Domains]

\* datetime.date.fromisoformat on a row's date string
fromisoformat(date) ==
    CASE date = "2021-01-01" -> [year |-> 2021, month |-> 1, day |-> 1]
      [] date = "2021-01-02" -> [year |-> 2021, month |-> 1, day |-> 2]

\* pipeline.metadata.beam_metadata.make_date_ip_key: JoinKey = (date, ip)
make_date_ip_key(row) == <<row.date, row.ip>>

JoinKeys == JoinDates \X Ips

\* IpMetadataWithKeys(): every metadata field unset
EmptyMetadata ==
    [netblock |-> None, asn |-> None, as_name |-> None,
     as_full_name |-> None, as_type |-> None, country |-> None]

(***************************************************************************)
(* MaxmindIpMetadata.lookup, maxmind.py:54-77. The two database reads are  *)
(* the environment: asnFound / countryFound say whether the snapshot holds *)
(* the address (AddressNotFoundError is caught inside the two getters).    *)
(* The values a snapshot holds are a function of the date and the ip.      *)
(***************************************************************************)
get_maxmind_asn(date, ip, asnFound) ==
    IF asnFound
    THEN <<(<<"asn", date, ip>>), (<<"org", date, ip>>), (<<"net", date, ip>>)>>
    ELSE <<None, None, None>>

get_country_code(date, ip, countryFound) ==
    IF countryFound THEN <<"cc", date, ip>> ELSE None

\* Result of lookup: [raised |-> TRUE] for KeyError, the 6-tuple otherwise.
MaxmindLookup(date, ip, asnFound, countryFound) ==
    LET a == get_maxmind_asn(date, ip, asnFound)
        country == get_country_code(date, ip, countryFound)
    IN  IF a[1] = None   \* `if not asn` (a snapshot holds no AS number 0)
        THEN [raised |-> TRUE, value |-> None]
        ELSE [raised |-> FALSE,
              value |-> <<a[3], a[1], a[2], None, None, country>>]

\* IpMetadataChooser.get_metadata: a lookup that raises is recorded as
\* "no metadata" for the key.
get_metadata(date, ip, asnFound, countryFound) ==
    LET r == MaxmindLookup(date, ip, asnFound, countryFound)
    IN  IF r.raised THEN EmptyMetadata
        ELSE [netblock |-> r.value[1], asn |-> r.value[2],
              as_name |-> r.value[3], as_full_name |-> r.value[4],
              as_type |-> r.value[5], country |-> r.value[6]]

(***************************************************************************)
(* The transforms of _add_metadata, beam_tables.py:381-434.                *)
(***************************************************************************)
\* 'key by ips and dates': beam.Map(lambda row: (make_date_ip_key(row), row))
KeyRow(row) == <<make_date_ip_key(row), row>>

\* the whole PCollection rows_keyed_by_ip_and_date
rows_keyed_by_ip_and_date(rs) ==
    [kv \in {KeyRow(r) : r \in DOMAIN rs} |-> rs[kv[2]]]

\* 'get ip and date keys per row': beam.Keys()
Keys(kv) ==
    [k \in {e[1] : e \in DOMAIN kv} |->
        BagSum(kv, {e \in DOMAIN kv : e[1] = k})]

DistinctKept(b) == b

\* 'dedup': beam.Distinct()
Distinct(b) == SetToBag(DOMAIN b)

GroupPerElement(b) ==
    {[date |-> k[1], ips |-> One(k[2])] : k \in DOMAIN b}

\* 'group by date': beam.GroupByKey() over (date, ip) pairs gives one
\* element (date, ips) per date.
GroupByKey(b) ==
    {[date |-> d,
      ips  |-> [ip \in {k[2] : k \in {x \in DOMAIN b : x[1] = d}} |->
                   b[<<d, ip>>]]] : d \in {k[1] : k \in DOMAIN b}}

grouped_ips_by_dates(kv) == GroupByKey(Distinct(Keys(kv)))

CoGroupAnyTime == stage \in {"keying", "lookup"}

\* 'group by keys': beam.CoGroupByKey() emits a key's group once both of
\* its inputs are complete: every row is keyed (the stage has left
\* "keying") and every _add_ip_metadata generator is exhausted.
CoGroupReady == stage = "lookup" /\ groups = {} /\ active = {}

CoGroupRowsCollapsed(kv, key) ==
    SetToBag(DOMAIN WithKey(kv, key))

\* the ROWS_PCOLLECION_NAME list of a key's co-group
CoGroupRows(kv, key) == WithKey(kv, key)

\* the IP_METADATA_PCOLLECTION_NAME list of a key's co-group
CoGroupMetadata(md, key) == {e[2] : e \in {x \in DOMAIN md : x[1] = key}}

\* pipeline.metadata.beam_metadata.merge_metadata_with_rows: the key's
\* metadata record merged onto every row of the key; rows of a key without
\* a record pass through with the metadata fields unset.
merge_metadata_with_rows(m, rowsK) ==
    [o \in {[row |-> e[2], meta |-> m] : e \in DOMAIN rowsK} |->
        rowsK[<<make_date_ip_key(o.row), o.row>>]]

(***************************************************************************)
(* _add_ip_metadata, beam_tables.py:436-455.                               *)
(***************************************************************************)
\* metadata_chooser_factory.make_chooser(datetime.date.fromisoformat(date)):
\* the n-th chooser built on worker w, for the parsed date
make_chooser(w, date, n) ==
    [worker |-> w, date |-> fromisoformat(date), n |-> n]

\* maxmind._maxmind_reader, called twice by MaxmindIpMetadata.__init__:
\* FileSystems.open(filepath) and geoip2.database.Reader(...) are opened
\* for the chooser; neither is closed by _maxmind_reader, which returns
\* the Reader for the chooser to keep.
maxmind_reader(open, inst) == open \cup {inst}

\* The choosers no frame of the run refers to any more: the generator
\* _add_ip_metadata of their date has returned.  Nothing in the source
\* closes them; the interpreter may or may not reclaim them.
Unreferenced == opened \ {a.inst : a \in active}

ChooserFailureSwallowed == stage

\* make_chooser raising is not caught: the exception leaves the DoFn and
\* the pipeline fails.
ChooserFailureStage == "failed"

RemainingIpsAbortOnMiss(ips, ip, values) ==
    IF values = EmptyMetadata THEN EmptyBag ELSE ips (-) One(ip)

\* `for ip in ips`: what is left to iterate after ip was handled
RemainingIps(ips, ip, values) == ips (-) One(ip)

(***************************************************************************)
(* Actions of the join.                                                    *)
(***************************************************************************)
\* A row reaches 'key by ips and dates'.
KeyByIpAndDate ==
    /\ stage = "keying"
    /\ BagCardinality(rows) < MaxRows
    /\ \E row \in Row :
         /\ rows' = rows (+) One(row)
         /\ keyed' = keyed (+) One(KeyRow(row))
    /\ UNCHANGED <<opened, stage, groups, active, made, failedDates, lookups, served,
                   metadata, out, selectVars, flatVars, runVars>>

\* The input is complete: Keys, Distinct and GroupByKey produce the groups.
GroupByDate ==
    /\ stage = "keying"
    /\ groups' = grouped_ips_by_dates(rows_keyed_by_ip_and_date(rows))
    /\ stage' = "lookup"
    /\ UNCHANGED <<opened, rows, keyed, active, made, failedDates, lookups, served,
                   metadata, out, selectVars, flatVars, runVars>>

\* _add_ip_metadata(date, ips) starts on a worker: make_chooser returns.
MakeChooser ==
    /\ stage = "lookup"
    /\ \E g \in groups, w \in Workers :
         /\ groups' = groups \ {g}
         /\ made' = [made EXCEPT ![w][g.date] = @ + 1]
         /\ active' = active \cup
               {[date |-> g.date, ips |-> g.ips, worker |-> w,
                 inst |-> make_chooser(w, g.date, made[w][g.date] + 1)]}
         /\ opened' = maxmind_reader(opened,
                          make_chooser(w, g.date, made[w][g.date] + 1))
    /\ UNCHANGED <<rows, keyed, stage, failedDates, lookups, served,
                   metadata, out, selectVars, flatVars, runVars>>

\* _add_ip_metadata(date, ips) starts: make_chooser raises
\* (MaxmindIpMetadata.__init__ cannot open the date's snapshot).
MakeChooserFails ==
    /\ stage = "lookup"
    /\ \E g \in groups :
         /\ groups' = groups \ {g}
         /\ failedDates' = failedDates \cup {g.date}
    /\ stage' = ChooserFailureStage
    /\ UNCHANGED <<opened, rows, keyed, active, made, lookups, served, metadata, out,
                   selectVars, flatVars, runVars>>

\* One iteration of `for ip in ips`.
GetMetadata ==
    /\ stage = "lookup"
    /\ \E a \in active :
       \E ip \in DOMAIN a.ips, asnFound \in BOOLEAN, countryFound \in BOOLEAN :
         LET values == get_metadata(a.date, ip, asnFound, countryFound)
             rest   == RemainingIps(a.ips, ip, values)
         IN  /\ lookups' = [lookups EXCEPT ![<<a.date, ip>>] = @ + 1]
             /\ served' = served \cup {<<a.date, a.inst>>}
             /\ metadata' = metadata (+) One(<<(<<a.date, ip>>), values>>)
             /\ active' = IF DOMAIN rest = {}
                          THEN active \ {a}
                          ELSE (active \ {a}) \cup {[a EXCEPT !.ips = rest]}
    /\ UNCHANGED <<opened, rows, keyed, stage, groups, made, failedDates, out,
                   selectVars, flatVars, runVars>>

\* 'merge metadata with rows' handles the co-group of one key.
MergeMetadataWithRows ==
    /\ CoGroupReady
    /\ \E key \in {e[1] : e \in DOMAIN keyed} :
         LET rowsK == CoGroupRows(keyed, key)
             metaK == CoGroupMetadata(metadata, key)
         IN  /\ \E m \in (IF metaK = {} THEN {EmptyMetadata} ELSE metaK) :
                   out' = out (+) merge_metadata_with_rows(m, rowsK)
             /\ keyed' = WithoutKey(keyed, key)
    /\ UNCHANGED <<opened, rows, stage, groups, active, made, failedDates, lookups,
                   served, metadata, selectVars, flatVars, runVars>>

\* The interpreter reclaims a chooser nothing refers to, which closes its
\* readers.  The source never asks for it and nothing makes it happen.
\* A reclaim during the lookups leads to the same end states as one after
\* them, so it is taken once the stage is over.
Reclaim ==
    /\ stage \in {"done", "failed"}
    /\ \E inst \in Unreferenced : opened' = opened \ {inst}
    /\ UNCHANGED <<rows, keyed, stage, groups, active, made, failedDates,
                   lookups, served, metadata, out, selectVars, flatVars,
                   runVars>>

\* Every co-group is merged: _add_metadata's output is complete.
JoinDone ==
    /\ CoGroupReady
    /\ DOMAIN keyed = {}
    /\ stage' = "done"
    /\ UNCHANGED <<opened, rows, keyed, groups, active, made, failedDates, lookups,
                   served, metadata, out, selectVars, flatVars, runVars>>

\* FlattenMeasurement.process has no file to work on
FlatIdle ==
    /\ flLines = <<>>
    /\ flCalls = <<>>
    /\ flRows = {}
    /\ flUuids = 0
    /\ flRaised = FALSE

\* run_beam_pipeline is not called
RunIdle ==
    /\ destIsGcs = FALSE
    /\ dest = {}
    /\ runNo = 0
    /\ exportGcs = FALSE
    /\ pc = "idle"
    /\ events = {}
    /\ produced = {}
    /\ destBefore = {}
    /\ outcome = "none"
    /\ prev = None

SelectIdle ==
    /\ listing = <<>>
    /\ scanType = "echo"
    /\ incremental = FALSE
    /\ startDate = None
    /\ endDate = None
    /\ existing = {}
    /\ result = Unset

Init ==
    /\ rows = EmptyBag
    /\ keyed = EmptyBag
    /\ stage = "keying"
    /\ groups = {}
    /\ active = {}
    /\ made = [w \in Workers |-> [d \in JoinDates |-> 0]]
    /\ failedDates = {}
    /\ lookups = [k \in JoinKeys |-> 0]
    /\ served = {}
    /\ metadata = EmptyBag
    /\ out = EmptyBag
    /\ opened = {}
    /\ SelectIdle
    /\ FlatIdle
    /\ RunIdle

Next ==
    \/ KeyByIpAndDate
    \/ GroupByDate
    \/ MakeChooser
    \/ MakeChooserFails
    \/ GetMetadata
    \/ MergeMetadataWithRows
    \/ Reclaim
    \/ JoinDone

Spec == Init /\ [][Next]_vars

(***************************************************************************)
(* The source selector, beam_tables.py:60-64, 169-211, 330-379.            *)
(*                                                                         *)
(* A file path '<bucket><scan>/<source>/<name>' is the record              *)
(*   scan   : the scan type directory,                                     *)
(*   stamps : the substrings of the path matching \d\d\d\d-\d\d-\d\d, in   *)
(*            order, each as the day number of the date it spells,         *)
(*   name   : the terminal filename as its dot-separated parts,            *)
(*            'results.json.gz' = <<"results", "json", "gz">>.             *)
(***************************************************************************)
SCAN_FILES == {<<"results", "json">>}

\* pipeline.metadata.satellite.SATELLITE_FILES: several expected filenames
SATELLITE_FILES == {<<"resolvers", "json">>, <<"blockpages", "json">>}

SCAN_TYPE_SATELLITE == "satellite"

EMPTY_GZIPPED_FILE_SIZE == 33

ScanTypes == {"echo", SCAN_TYPE_SATELLITE}

Dates == 1..MaxDate

\* Optional[datetime.date]: None or <<d>>; a date object is always truthy
OptionalDates == {None} \cup {<<d>> : d \in Dates}

Truthy(x) == x # None

BetweenDatesExclusive(path, start_date, end_date) ==
    IF path.stamps = <<>>
    THEN [op |-> "_between_dates", raised |-> TRUE, value |-> FALSE]
    ELSE LET date == path.stamps[1]
         IN  [op |-> "_between_dates", raised |-> FALSE,
              value |->
                IF Truthy(start_date) /\ Truthy(end_date)
                THEN start_date[1] < date /\ date < end_date[1]
                ELSE IF Truthy(start_date) THEN start_date[1] < date
                ELSE IF Truthy(end_date) THEN date < end_date[1]
                ELSE TRUE]

\* _between_dates: re.findall(...)[0] raises IndexError on a path without a
\* date stamp.
BetweenDates(path, start_date, end_date) ==
    IF path.stamps = <<>>
    THEN [op |-> "_between_dates", raised |-> TRUE, value |-> FALSE]
    ELSE LET date == path.stamps[1]
         IN  [op |-> "_between_dates", raised |-> FALSE,
              value |->
                IF Truthy(start_date) /\ Truthy(end_date)
                THEN start_date[1] <= date /\ date <= end_date[1]
                ELSE IF Truthy(start_date) THEN start_date[1] <= date
                ELSE IF Truthy(end_date) THEN date <= end_date[1]
                ELSE TRUE]

\* str.lstrip('.') on a name given by its parts: leading dots are leading
\* empty parts
RECURSIVE LStripDots(_)
LStripDots(parts) ==
    IF Len(parts) > 1 /\ parts[1] = "" THEN LStripDots(Tail(parts))
    ELSE parts

\* pathlib.PurePosixPath(name).suffixes, without the leading dots
Suffixes(parts) ==
    IF Len(parts) > 1 /\ parts[Len(parts)] = ""     \* name.endswith('.')
    THEN <<>>
    ELSE Tail(LStripDots(parts))                    \* name.split('.')[1:]

\* pathlib.PurePosixPath(name).stem: i = name.rfind('.'), the name up to i
\* when 0 < i < len(name) - 1
Stem(parts) ==
    LET n == Len(parts)
    IN  IF /\ n > 1
           /\ ~(n = 2 /\ parts[1] = "")             \* 0 < i
           /\ parts[n] # ""                         \* i < len(name) - 1
        THEN SubSeq(parts, 1, n - 1)
        ELSE parts

SeqRange(q) == {q[i] : i \in DOMAIN q}

FilenameMatchesUnstripped(path, allowed_filenames) ==
    path.name \in allowed_filenames

\* _filename_matches
FilenameMatches(path, allowed_filenames) ==
    LET filename == path.name
        stripped == IF "gz" \in SeqRange(Suffixes(filename))
                    THEN Stem(filename) ELSE filename
    IN  stripped \in allowed_filenames

\* pipeline.metadata.flatten_base.source_from_filename: the <source>
\* directory of the path, which embeds the scan type and the date stamp
source_from_filename(path) == [scan |-> path.scan, stamps |-> path.stamps]

ExistingSourcesAlwaysEmpty(incremental_load, destination_sources) == {}

\* _data_to_load, lines 352-357: _get_existing_datasources(destination)
\* for an incremental load, [] otherwise
existing_sources(incremental_load, destination_sources) ==
    IF incremental_load THEN destination_sources ELSE {}

\* _data_to_load, lines 359-362
files_to_load(scan_type) ==
    IF scan_type = SCAN_TYPE_SATELLITE THEN SATELLITE_FILES ELSE SCAN_FILES

LargerThanEmptyOrEqual(file_size) == file_size >= EMPTY_GZIPPED_FILE_SIZE

\* _data_to_load, line 376
LargerThanEmpty(file_size) == file_size > EMPTY_GZIPPED_FILE_SIZE

\* _data_to_load, lines 364-379. _between_dates is the first conjunct, so it
\* runs for every listed file and its IndexError leaves the function.
data_to_load(file_metadata, scan_type, incremental_load, dest_sources, start_date, end_date) ==
    LET srcs == existing_sources(incremental_load, dest_sources)
        Keep(m) ==
            /\ BetweenDates(m.path, start_date, end_date).value
            /\ FilenameMatches(m.path, files_to_load(scan_type))
            /\ source_from_filename(m.path) \notin srcs
            /\ LargerThanEmpty(m.size)
    IN  IF \E i \in DOMAIN file_metadata :
               BetweenDates(file_metadata[i].path, start_date, end_date).raised
        THEN [op |-> "_data_to_load", raised |-> TRUE, value |-> <<>>]
        ELSE [op |-> "_data_to_load", raised |-> FALSE,
              value |-> LET kept == SelectSeq(file_metadata, Keep)
                        IN  [i \in DOMAIN kept |-> kept[i].path]]

(***************************************************************************)
(* SelectSpec: one call of _data_to_load. The objects of the bucket appear *)
(* one by one before the call; the run parameters and the sources at the   *)
(* destination are fixed from the start.                                   *)
(***************************************************************************)
SourceDates == 1..MaxSourceDate

SelectNames == {<<"results", "json", "gz">>, <<"resolvers", "json">>}

FileSizes ==
    {EMPTY_GZIPPED_FILE_SIZE - 1, EMPTY_GZIPPED_FILE_SIZE,
     EMPTY_GZIPPED_FILE_SIZE + 1}

SelectPaths(scan_type) ==
    [scan : {scan_type}, stamps : {<<d>> : d \in SourceDates},
     name : SelectNames]

Sources(scan_type) ==
    {[scan |-> scan_type, stamps |-> <<d>>] : d \in SourceDates}

JoinIdle ==
    /\ rows = EmptyBag
    /\ keyed = EmptyBag
    /\ stage = "idle"
    /\ groups = {}
    /\ active = {}
    /\ made = [w \in Workers |-> [d \in JoinDates |-> 0]]
    /\ failedDates = {}
    /\ lookups = [k \in JoinKeys |-> 0]
    /\ served = {}
    /\ metadata = EmptyBag
    /\ out = EmptyBag
    /\ opened = {}

SelectInit ==
    /\ JoinIdle
    /\ FlatIdle
    /\ RunIdle
    /\ listing = <<>>
    /\ scanType \in ScanTypes
    /\ incremental \in BOOLEAN
    /\ startDate \in {None} \cup {<<d>> : d \in SourceDates}
    /\ endDate \in {None} \cup {<<d>> : d \in SourceDates}
    /\ existing \in SUBSET Sources(scanType)
    /\ result = Unset

\* gcs.match finds one more object under '<bucket><scan_type>/'
ObjectListed ==
    /\ result = Unset
    /\ Len(listing) < MaxFiles
    /\ \E p \in SelectPaths(scanType), sz \in FileSizes :
         /\ \A i \in DOMAIN listing : listing[i].path # p
         /\ listing' = Append(listing, [path |-> p, size |-> sz])
    /\ UNCHANGED <<scanType, incremental, startDate, endDate, existing,
                   result, joinVars, flatVars, runVars>>

\* _data_to_load returns
DataToLoad ==
    /\ result = Unset
    /\ result' = data_to_load(listing, scanType, incremental, existing,
                              startDate, endDate)
    /\ UNCHANGED <<listing, scanType, incremental, startDate, endDate,
                   existing, joinVars, flatVars, runVars>>

SelectNext == ObjectListed \/ DataToLoad

SelectSpec == SelectInit /\ [][SelectNext]_vars

(***************************************************************************)
(* DatesSpec: _between_dates applied to one path.                          *)
(***************************************************************************)
StampSeqs == UNION {[1..n -> Dates] : n \in 0..MaxStamps}

DatesInit ==
    /\ JoinIdle
    /\ FlatIdle
    /\ RunIdle
    /\ \E st \in StampSeqs :
         listing = <<[path |-> [scan |-> "echo", stamps |-> st,
                                name |-> <<"results", "json">>],
                      size |-> EMPTY_GZIPPED_FILE_SIZE + 1]>>
    /\ scanType = "echo"
    /\ incremental = FALSE
    /\ startDate \in OptionalDates
    /\ endDate \in OptionalDates
    /\ existing = {}
    /\ result = Unset

BetweenDatesCall ==
    /\ result = Unset
    /\ result' = BetweenDates(listing[1].path, startDate, endDate)
    /\ UNCHANGED <<listing, scanType, incremental, startDate, endDate,
                   existing, joinVars, flatVars, runVars>>

DatesNext == BetweenDatesCall

DatesSpec == DatesInit /\ [][DatesNext]_vars

(***************************************************************************)
(* FilenameSpec: _filename_matches applied to one path.                    *)
(***************************************************************************)
NameParts == {"", "results", "resolvers", "blockpages", "json", "gz"}

\* filenames of at most MaxNameParts parts that are not only dots
FileNames ==
    {nm \in UNION {[1..n -> NameParts] : n \in 1..MaxNameParts} :
        \E i \in DOMAIN nm : nm[i] # ""}

FilenameInit ==
    /\ JoinIdle
    /\ FlatIdle
    /\ RunIdle
    /\ \E nm \in FileNames :
         listing = <<[path |-> [scan |-> "echo", stamps |-> <<1>>,
                                name |-> nm],
                      size |-> EMPTY_GZIPPED_FILE_SIZE + 1]>>
    /\ scanType \in ScanTypes
    /\ incremental = FALSE
    /\ startDate = None
    /\ endDate = None
    /\ existing = {}
    /\ result = Unset

FilenameMatchesCall ==
    /\ result = Unset
    /\ result' = [op |-> "_filename_matches",
                  value |-> FilenameMatches(listing[1].path,
                                            files_to_load(scanType))]
    /\ UNCHANGED <<listing, scanType, incremental, startDate, endDate,
                   existing, joinVars, flatVars, runVars>>

FilenameNext == FilenameMatchesCall

FilenameSpec == FilenameInit /\ [][FilenameNext]_vars

(***************************************************************************)
(* Properties of the metadata join.                                        *)
(***************************************************************************)
\* both inputs of the co-group are complete
LookupsComplete ==
    \/ stage = "done"
    \/ stage = "lookup" /\ groups = {} /\ active = {}

RowKeys == {make_date_ip_key(r) : r \in DOMAIN rows}

OutCopies(r) == BagSum(out, {o \in DOMAIN out : o.row = r})

\* keys whose lookup was recorded as "no metadata"
MissedKeys == {e[1] : e \in {x \in DOMAIN metadata : x[2] = EmptyMetadata}}

\* C1: when the join is done its output holds exactly the rows it received:
\* the same number of rows, and every input row as many times as it came in.
C1_RowsPreserved ==
    stage = "done" =>
        /\ BagCardinality(out) = BagCardinality(rows)
        /\ \A r \in Row :
             OutCopies(r) = (IF r \in DOMAIN rows THEN rows[r] ELSE 0)

\* C1 witness: a finished join of two identical rows and a third one, in
\* which every lookup missed.
C1_Witness ==
    /\ stage = "done"
    /\ BagCardinality(rows) = 3
    /\ \E r \in DOMAIN rows : rows[r] = 2
    /\ \A o \in DOMAIN out : o.meta = EmptyMetadata
    /\ MissedKeys = RowKeys

\* C2: no key is ever looked up twice, and once the lookups are complete
\* every distinct (date, ip) of the rows was looked up exactly once and no
\* other key was: the number of get_metadata calls is the number of
\* distinct keys.
C2_OneLookupPerKey ==
    /\ \A k \in JoinKeys : lookups[k] <= 1
    /\ LookupsComplete =>
         /\ \A k \in JoinKeys : lookups[k] = (IF k \in RowKeys THEN 1 ELSE 0)
         /\ BagSum(lookups, JoinKeys) = Cardinality(RowKeys)

\* C2 witness: two rows with the same (date, ip) and different domains were
\* joined with exactly one lookup.
C2_Witness ==
    /\ stage = "done"
    /\ BagCardinality(rows) = 2
    /\ Cardinality(DOMAIN rows) = 2
    /\ Cardinality(RowKeys) = 1
    /\ BagSum(lookups, JoinKeys) = 1
    /\ BagCardinality(out) = 2

\* C3: any two output rows with the same (date, ip) carry the same metadata.
C3_MergeConsistent ==
    \A o1 \in DOMAIN out, o2 \in DOMAIN out :
        make_date_ip_key(o1.row) = make_date_ip_key(o2.row)
            => o1.meta = o2.meta

\* C3 witness: two different output rows of one key carrying a found record,
\* beside a row of another key carrying another record.
C3_Witness ==
    \E o1 \in DOMAIN out, o2 \in DOMAIN out, o3 \in DOMAIN out :
        /\ o1 # o2
        /\ make_date_ip_key(o1.row) = make_date_ip_key(o2.row)
        /\ o1.meta # EmptyMetadata
        /\ o3.meta # o1.meta

\* C4: a lookup miss never fails the run, and when the join is done every
\* key of the rows was looked up (also the ones that share a date with a
\* missed key), and every row of a missed key is in the output with all
\* metadata fields unset.
C4_MissIsNotFatal ==
    /\ stage = "failed" => failedDates # {}
    /\ stage = "done" =>
         /\ \A k \in RowKeys : lookups[k] >= 1
         /\ \A r \in DOMAIN rows :
              make_date_ip_key(r) \in MissedKeys =>
                  /\ [row |-> r, meta |-> EmptyMetadata] \in DOMAIN out
                  /\ out[[row |-> r, meta |-> EmptyMetadata]] = rows[r]

\* C4 witness: a finished join in which 9.9.9.9 missed on 2021-01-01 and
\* 1.1.1.1 of the same date was found.
C4_Witness ==
    /\ stage = "done"
    /\ <<"2021-01-01", "9.9.9.9">> \in MissedKeys
    /\ \E o \in DOMAIN out :
         /\ o.row.date = "2021-01-01"
         /\ o.row.ip = "1.1.1.1"
         /\ o.meta # EmptyMetadata
    /\ \E o \in DOMAIN out :
         /\ o.row.date = "2021-01-01"
         /\ o.row.ip = "9.9.9.9"
         /\ o.meta = EmptyMetadata

\* C5: a date's chooser is built at most once (on one worker, whatever the
\* number of ips and rows of the date), and all lookups of a date are served
\* by that one chooser.
C5_OneChooserPerDate ==
    /\ \A d \in JoinDates : BagSum([w \in Workers |-> made[w][d]], Workers) <= 1
    /\ \A s1 \in served, s2 \in served : s1[1] = s2[1] => s1[2] = s2[2]
    /\ \A s \in served : s[2].n = 1 /\ made[s[2].worker][s[1]] = 1

\* C5 witness: two ips of one date were looked up, with one chooser built
\* for the date.
C5_Witness ==
    \E d \in JoinDates :
        /\ \A ip \in Ips : lookups[<<d, ip>>] = 1
        /\ BagSum([w \in Workers |-> made[w][d]], Workers) = 1
        /\ BagCardinality(rows) = 3

\* C6: when make_chooser fails for a date the run is failed, and no row of
\* such a date (indeed no row at all) has left the join.
C6_ChooserFailureIsFatal ==
    /\ failedDates # {} => stage = "failed"
    /\ stage = "failed" => out = EmptyBag
    /\ \A o \in DOMAIN out : o.row.date \notin failedDates

\* C6 witness: the chooser of one date was built and served a lookup, the
\* chooser of the other date failed, and rows of both dates came in.
C6_Witness ==
    /\ stage = "failed"
    /\ failedDates = {"2021-01-02"}
    /\ {r.date : r \in DOMAIN rows} = JoinDates
    /\ lookups[<<"2021-01-01", "1.1.1.1">>] = 1

(***************************************************************************)
(* Properties of the source selector.                                      *)
(***************************************************************************)
Returned == result # Unset /\ ~result.raised

Selected == SeqRange(result.value)

Listed == SeqRange(listing)

\* the three tests of _data_to_load other than the already-ingested one
PassesDateNameSize(m) ==
    /\ BetweenDates(m.path, startDate, endDate).value
    /\ FilenameMatches(m.path, files_to_load(scanType))
    /\ m.size > EMPTY_GZIPPED_FILE_SIZE

\* C7: an incremental _data_to_load selects exactly the listed files that
\* pass the date, name and size tests and whose source is not at the
\* destination; a non-incremental one selects every file that passes the
\* three tests, whatever sources the destination holds.
C7_IngestedSourcesExcluded ==
    Returned =>
        \A m \in Listed :
            m.path \in Selected <=>
                /\ PassesDateNameSize(m)
                /\ incremental => source_from_filename(m.path) \notin existing

\* C7 witness: an incremental call with a date window that dropped a file
\* for its source alone and selected another file.
C7_Witness ==
    /\ Returned
    /\ incremental
    /\ startDate # None
    /\ endDate # None
    /\ Len(result.value) = 1
    /\ \E m \in Listed :
         /\ PassesDateNameSize(m)
         /\ source_from_filename(m.path) \in existing
         /\ m.path \notin Selected

\* C8: _data_to_load selects no file of at most EMPTY_GZIPPED_FILE_SIZE (33)
\* bytes, and the size test drops no file of 34 bytes: such a file is
\* selected whenever it passes the date, name and source tests.
C8_EmptyFilesExcluded ==
    Returned =>
        \A m \in Listed :
            /\ m.size <= EMPTY_GZIPPED_FILE_SIZE => m.path \notin Selected
            /\ ( /\ m.size = EMPTY_GZIPPED_FILE_SIZE + 1
                 /\ BetweenDates(m.path, startDate, endDate).value
                 /\ FilenameMatches(m.path, files_to_load(scanType))
                 /\ source_from_filename(m.path)
                        \notin existing_sources(incremental, existing) )
               => m.path \in Selected

\* C8 witness: a file of exactly 33 bytes that passes the other tests was
\* dropped and a file of 34 bytes was selected.
C8_Witness ==
    /\ Returned
    /\ \E m \in Listed :
         /\ m.size = EMPTY_GZIPPED_FILE_SIZE
         /\ BetweenDates(m.path, startDate, endDate).value
         /\ FilenameMatches(m.path, files_to_load(scanType))
         /\ source_from_filename(m.path) \notin existing
         /\ m.path \notin Selected
    /\ \E m \in Listed :
         /\ m.size = EMPTY_GZIPPED_FILE_SIZE + 1
         /\ m.path \in Selected

\* C9: for a path holding a date stamp, _between_dates is true exactly when
\* the (first) date of the path is not before start_date, if given, and not
\* after end_date, if given.
C9_WindowInclusive ==
    Returned =>
        LET date == listing[1].path.stamps[1]
        IN  result.value =
              ( /\ (startDate # None => startDate[1] <= date)
                /\ (endDate # None => date <= endDate[1]) )

\* C9 witness: a path dated on end_date, after start_date, was kept.
C9_Witness ==
    /\ Returned
    /\ startDate # None
    /\ endDate # None
    /\ startDate[1] < endDate[1]
    /\ listing[1].path.stamps[1] = endDate[1]
    /\ result.value

\* a terminal filename with its .gz suffix, if it ends in one, removed
StripGzSuffix(parts) ==
    IF Len(parts) > 1 /\ parts[Len(parts)] = "gz"
    THEN SubSeq(parts, 1, Len(parts) - 1)
    ELSE parts

\* C10: _filename_matches is true exactly when the terminal filename, with a
\* .gz suffix removed if it ends in one, is one of the scan type's expected
\* filenames.
C10_FilenameMatches ==
    result # Unset =>
        result.value =
            (StripGzSuffix(listing[1].path.name) \in files_to_load(scanType))

\* C10 witness: a zipped file matched the second expected filename of the
\* satellite scan type.
C10_Witness ==
    /\ result # Unset
    /\ scanType = SCAN_TYPE_SATELLITE
    /\ listing[1].path.name = <<"blockpages", "json", "gz">>
    /\ result.value


(***************************************************************************)
(* run_beam_pipeline, beam_tables.py:585-651, with the two sinks           *)
(* _write_to_bigquery (457-492) and _write_to_gcs (494-556).               *)
(*                                                                         *)
(* RunSpec: runs of one job, one after the other, against one destination  *)
(* and one bucket whose listing only grows.  A file of the bucket is       *)
(*   path, size : as in the selector,                                      *)
(*   lines      : how many of its lines flatten to at least one row.       *)
(* The destination holds, per source, the rows a run wrote:                *)
(*   [source, run, incr] = rows of `source` written by run `run`, which    *)
(*   was incremental iff `incr`.                                           *)
(* The runs are echo scans; a run has no date window or one that starts    *)
(* at the latest source date and has no end.                               *)
(***************************************************************************)
MaxRuns == 2

RunPaths ==
    [scan : {"echo"}, stamps : {<<d>> : d \in SourceDates},
     name : {<<"results", "json", "gz">>}]

\* the empty gzipped file, and files with content of which no line or one
\* line flattens to rows
\* the start_date a run may be given
RunStartDates == {None, <<MaxSourceDate>>}

RunFiles ==
    [path : RunPaths, size : {EMPTY_GZIPPED_FILE_SIZE}, lines : {0}]
    \cup [path : RunPaths, size : {EMPTY_GZIPPED_FILE_SIZE + 1},
          lines : {0, 1}]

DestinationCheckGcsOnly(export_gcs, is_gcs) == export_gcs /\ ~is_gcs

\* run_beam_pipeline, lines 612-617: the two mismatch checks, each of
\* which raises Exception
DestinationMismatch(export_gcs, is_gcs) ==
    \/ export_gcs /\ ~is_gcs
    \/ ~export_gcs /\ is_gcs

DestinationSourcesNone(destination) == {}

\* _get_existing_datasources, lines 96-138: the distinct sources of the
\* rows at the destination (SELECT DISTINCT(source) on a table, the
\* 'source=...' components of the blob names under a gs:// prefix)
DestinationSources(destination) == {e.source : e \in destination}

HasNewFilesAlways(new_filenames) == TRUE

\* run_beam_pipeline, lines 624-626: `if not new_filenames: return`
HasNewFiles(new_filenames) == new_filenames # <<>>

\* lines 630-641: the sources of the rows that reading the selected files
\* and flattening their lines gives
RowSources(file_metadata, new_filenames) ==
    {source_from_filename(file_metadata[i].path) :
        i \in {j \in DOMAIN file_metadata :
                 /\ file_metadata[j].path \in SeqRange(new_filenames)
                 /\ file_metadata[j].lines > 0}}

RaiseExceptionNever(num) == FALSE

\* _raise_exception_if_zero, lines 285-287, on the one number that
\* Count.Globally emits (0 for an empty collection)
raise_exception_if_zero(num) == num = 0

\* the rows a run hands to its sink
NewRows(srcs, run, incr) ==
    {[source |-> s, run |-> run, incr |-> incr] : s \in srcs}

\* _write_to_bigquery, lines 477-492: WRITE_APPEND for an incremental load,
\* WRITE_TRUNCATE otherwise
write_to_bigquery(destination, new_rows, incremental_load) ==
    IF incremental_load THEN destination \cup new_rows ELSE new_rows

\* _write_to_gcs, lines 494-556: takes no incremental_load; WriteToFiles
\* writes '<scan_type>/source=<source>/country=<country>/results...' under
\* the destination, replacing a file of the same name and touching no
\* other object
write_to_gcs(destination, new_rows) ==
    {e \in destination : e.source \notin DestinationSources(new_rows)}
        \cup new_rows

RunEvents ==
    {"query_destination", "list_files", "read", "flatten", "make_chooser",
     "truncate", "write"}

\* what is kept of a run once it is over
RunSummary(how) ==
    [outcome |-> how, run |-> runNo, incremental |-> incremental,
     exportGcs |-> exportGcs, startDate |-> startDate,
     listing |-> listing,
     selected |-> IF result = Unset THEN <<>> ELSE result.value,
     produced |-> produced]

RunInit ==
    /\ JoinIdle
    /\ FlatIdle
    /\ listing = <<>>
    /\ scanType = "echo"
    /\ incremental = FALSE
    /\ startDate = None
    /\ endDate = None
    /\ existing = {}
    /\ result = Unset
    /\ destIsGcs \in BOOLEAN
    /\ dest = {}
    /\ runNo = 0
    /\ exportGcs = FALSE
    /\ pc = "idle"
    /\ events = {}
    /\ produced = {}
    /\ destBefore = {}
    /\ outcome = "none"
    /\ prev = None

\* Between two runs a new file appears in the bucket.
Upload ==
    /\ pc = "idle"
    /\ Len(listing) < MaxFiles
    /\ \E f \in RunFiles :
         /\ \A i \in DOMAIN listing : listing[i].path # f.path
         /\ listing' = Append(listing, f)
    /\ UNCHANGED <<scanType, incremental, startDate, endDate, existing,
                   result, joinVars, flatVars, runVars>>

\* run_beam_pipeline(scan_type, incremental_load, ..., destination,
\* export_gcs) is called.
StartRun ==
    /\ pc = "idle"
    /\ runNo < MaxRuns
    /\ runNo' = runNo + 1
    /\ incremental' \in BOOLEAN
    /\ exportGcs' \in BOOLEAN
    /\ startDate' \in RunStartDates
    /\ pc' = "validate"
    /\ events' = {}
    /\ produced' = {}
    /\ destBefore' = dest
    /\ outcome' = "none"
    /\ result' = Unset
    /\ existing' = {}
    /\ UNCHANGED <<listing, scanType, endDate, destIsGcs, dest, prev,
                   joinVars, flatVars>>

\* lines 612-617: a mismatch raises
MismatchRaises ==
    /\ pc = "validate"
    /\ DestinationMismatch(exportGcs, destIsGcs)
    /\ outcome' = "error"
    /\ pc' = "idle"
    /\ prev' = RunSummary("error")
    /\ UNCHANGED <<selectVars, destIsGcs, dest, runNo, exportGcs, events,
                   produced, destBefore, joinVars, flatVars>>

\* lines 612-620: no mismatch
DestinationValid ==
    /\ pc = "validate"
    /\ ~DestinationMismatch(exportGcs, destIsGcs)
    /\ pc' = "select"
    /\ UNCHANGED <<selectVars, destIsGcs, dest, runNo, exportGcs, events,
                   produced, destBefore, outcome, prev, joinVars, flatVars>>

\* lines 622-623: _data_to_load queries the destination for its sources
\* (incremental load only), lists the bucket and selects
RunDataToLoad ==
    /\ pc = "select"
    /\ existing' = existing_sources(incremental, DestinationSources(dest))
    /\ result' = data_to_load(listing, scanType, incremental,
                              DestinationSources(dest), startDate, endDate)
    /\ events' = events \cup {"list_files"}
                   \cup (IF incremental THEN {"query_destination"} ELSE {})
    /\ pc' = "selected"
    /\ UNCHANGED <<listing, scanType, incremental, startDate, endDate,
                   destIsGcs, dest, runNo, exportGcs, produced, destBefore,
                   outcome, prev, joinVars, flatVars>>

\* lines 624-626: 'No new files to load', return
NoNewFiles ==
    /\ pc = "selected"
    /\ ~HasNewFiles(result.value)
    /\ outcome' = "success"
    /\ pc' = "idle"
    /\ prev' = RunSummary("success")
    /\ UNCHANGED <<selectVars, destIsGcs, dest, runNo, exportGcs, events,
                   produced, destBefore, joinVars, flatVars>>

\* lines 628-641: the pipeline reads the selected files and flattens
\* their lines
ReadAndFlatten ==
    /\ pc = "selected"
    /\ HasNewFiles(result.value)
    /\ produced' = RowSources(listing, result.value)
    /\ events' = events \cup {"read", "flatten"}
    /\ pc' = "flattened"
    /\ UNCHANGED <<selectVars, destIsGcs, dest, runNo, exportGcs,
                   destBefore, outcome, prev, joinVars, flatVars>>

\* line 643: _add_metadata; a chooser is made for every date that has rows
AddMetadata ==
    /\ pc = "flattened"
    /\ events' = events \cup (IF produced = {} THEN {} ELSE {"make_chooser"})
    /\ pc' = "joined"
    /\ UNCHANGED <<selectVars, destIsGcs, dest, runNo, exportGcs, produced,
                   destBefore, outcome, prev, joinVars, flatVars>>

\* line 643: make_chooser raises for a date that has rows; the pipeline
\* fails
AddMetadataFails ==
    /\ pc = "flattened"
    /\ produced # {}
    /\ events' = events \cup {"make_chooser"}
    /\ outcome' = "error"
    /\ pc' = "idle"
    /\ prev' = RunSummary("error")
    /\ UNCHANGED <<selectVars, destIsGcs, dest, runNo, exportGcs, produced,
                   destBefore, joinVars, flatVars>>

\* line 645: _raise_error_if_collection_empty raises on a count of zero
\* rows; with no row the sink has nothing to write
ZeroRowsRaises ==
    /\ pc = "joined"
    /\ raise_exception_if_zero(Cardinality(produced))
    /\ outcome' = "error"
    /\ pc' = "idle"
    /\ prev' = RunSummary("error")
    /\ UNCHANGED <<selectVars, destIsGcs, dest, runNo, exportGcs, events,
                   produced, destBefore, joinVars, flatVars>>

\* lines 647-651: the rows go to the sink and the pipeline ends
WriteToSink ==
    /\ pc = "joined"
    /\ ~raise_exception_if_zero(Cardinality(produced))
    /\ LET new_rows == NewRows(produced, runNo, incremental)
       IN  dest' = IF exportGcs
                   THEN write_to_gcs(dest, new_rows)
                   ELSE write_to_bigquery(dest, new_rows, incremental)
    /\ events' = events \cup
         (IF produced = {} THEN {} ELSE {"write"}) \cup
         (IF ~exportGcs /\ ~incremental /\ produced # {}
          THEN {"truncate"} ELSE {})
    /\ outcome' = "success"
    /\ pc' = "idle"
    /\ prev' = RunSummary("success")
    /\ UNCHANGED <<selectVars, destIsGcs, runNo, exportGcs, produced,
                   destBefore, joinVars, flatVars>>

RunNext ==
    \/ Upload
    \/ StartRun
    \/ MismatchRaises
    \/ DestinationValid
    \/ RunDataToLoad
    \/ NoNewFiles
    \/ ReadAndFlatten
    \/ AddMetadata
    \/ AddMetadataFails
    \/ ZeroRowsRaises
    \/ WriteToSink

RunSpec == RunInit /\ [][RunNext]_vars

\* the current run is over
RunOver == pc = "idle" /\ outcome # "none"

\* the current run got its selection from _data_to_load
RunSelected == result # Unset /\ ~result.raised

(***************************************************************************)
(* Claims about run_beam_pipeline.                                         *)
(***************************************************************************)
DownstreamEvents == {"read", "flatten", "make_chooser", "truncate", "write"}

\* C11: when _data_to_load returns an empty list, run_beam_pipeline
\* returns successfully and no downstream stage runs: the run never gets
\* past the selection, it reads no file, flattens no row, makes no
\* chooser, and writes or truncates nothing at the destination.
C11_EmptySelectionReturns ==
    (RunSelected /\ result.value = <<>>) =>
        /\ pc \in {"selected", "idle"}
        /\ events \cap DownstreamEvents = {}
        /\ produced = {}
        /\ dest = destBefore
        /\ outcome # "error"
        /\ (pc = "idle" => outcome = "success")

\* an incremental run over a bucket that has files and a destination that
\* has rows selected nothing and returned
C11_Witness ==
    /\ RunOver
    /\ RunSelected
    /\ result.value = <<>>
    /\ outcome = "success"
    /\ listing # <<>>
    /\ dest # {}

\* C12: when the selection is not empty but the pipeline produces zero
\* rows, the run ends in an error, never in success; a run that does not
\* end in an error has all the rows of its selected files at the
\* destination.
C12_ZeroRowsIsFatal ==
    /\ (RunOver /\ RunSelected /\ result.value # <<>> /\ produced = {})
          => outcome = "error"
    /\ (RunOver /\ outcome # "error") =>
          /\ RunSelected
          /\ NewRows(RowSources(prev.listing, result.value), runNo,
                     incremental) \subseteq dest

\* a run selected files, read and flattened them to no row, and failed
C12_Witness ==
    /\ RunOver
    /\ RunSelected
    /\ result.value # <<>>
    /\ "flatten" \in events
    /\ produced = {}
    /\ outcome = "error"

\* C13: with export_gcs set and a destination that is not a gs:// path, or
\* export_gcs unset and a gs:// destination, run_beam_pipeline fails
\* before it lists or reads a file, before it queries the destination and
\* before it writes.
C13_MismatchFailsFirst ==
    (runNo > 0 /\ exportGcs # destIsGcs) =>
        /\ pc \in {"validate", "idle"}
        /\ events = {}
        /\ result = Unset
        /\ dest = destBefore
        /\ (pc = "idle" => outcome = "error")

\* a mismatching run failed over a bucket that has files and a destination
\* that has rows
C13_Witness ==
    /\ RunOver
    /\ exportGcs # destIsGcs
    /\ outcome = "error"
    /\ listing # <<>>
    /\ dest # {}

(***************************************************************************)
(* FlattenMeasurement.process, flatten.py:29-64.                           *)
(*                                                                         *)
(* FlattenSpec: the 'flatten json' ParDo over the lines of one file.  A    *)
(* line is                                                                 *)
(*   json    : json.loads accepts it,                                      *)
(*   results : how many roundtrips / answers the parsed record holds;      *)
(* two lines with equal fields are lines of identical content.  The lines  *)
(* are processed in order; once the file is through, a line may be         *)
(* processed again (a retried element).  A yielded row is                  *)
(*   line, call     : the process call that yielded it,                    *)
(*   family, idx    : the extractor and the position in its output,        *)
(*   measurement_id : the id the call passed to the extractor.             *)
(***************************************************************************)
MaxLines == 3

MaxRetries == 1

MaxResults == 2

FlattenLines ==
    [json : {FALSE}, results : {0}]
        \cup [json : {TRUE}, results : 0..MaxResults]

LineSeqs ==
    UNION {[1..n -> FlattenLines] : n \in 0..MaxLines}

\* flatten.py:51-56, json.loads(line): JSONDecodeError on a malformed line
json_loads(line) == [raised |-> ~line.json, scan |-> line]

OnJSONDecodeErrorRaise == [rows |-> {}, raised |-> TRUE]

\* flatten.py:53-56, the except clause: logging.warning and `return`
OnJSONDecodeError == [rows |-> {}, raised |-> FALSE]

MeasurementIdOfInstance(draws) == 1

\* flatten.py:59, uuid.uuid4().hex: the value of the (draws + 1)-th draw;
\* two draws never give the same value
random_measurement_id(draws) == draws + 1

\* SATELLITE_PATH_COMPONENT in filename, flatten.py:61
IsSatellitePath(scan_type) == scan_type = SCAN_TYPE_SATELLITE

\* _process_satellite / _process_hyperquack(filename, scan,
\* random_measurement_id): one row per answer / roundtrip of the record,
\* each carrying the measurement id it was given
process_scan(scan_type, scan, measurement_id) ==
    {[family |-> IF IsSatellitePath(scan_type)
                 THEN "satellite" ELSE "hyperquack",
      idx |-> k, measurement_id |-> measurement_id] :
        k \in 1..scan.results}

\* FlattenMeasurement.process((filename, line)), flatten.py:48-64, with
\* `draws` uuid4 values drawn before the call
process(scan_type, line, draws) ==
    LET parsed == json_loads(line)
    IN  IF parsed.raised
        THEN [rows |-> OnJSONDecodeError.rows,
              raised |-> OnJSONDecodeError.raised, draws |-> draws]
        ELSE [rows |-> process_scan(scan_type, parsed.scan,
                                    random_measurement_id(draws)),
              raised |-> FALSE, draws |-> draws + 1]

RECURSIVE SumSeq(_)
SumSeq(s) == IF s = <<>> THEN 0 ELSE Head(s) + SumSeq(Tail(s))

FlattenInit ==
    /\ JoinIdle
    /\ RunIdle
    /\ listing = <<>>
    /\ scanType \in ScanTypes
    /\ incremental = FALSE
    /\ startDate = None
    /\ endDate = None
    /\ existing = {}
    /\ result = Unset
    /\ flLines \in LineSeqs
    /\ flCalls = [i \in DOMAIN flLines |-> 0]
    /\ flRows = {}
    /\ flUuids = 0
    /\ flRaised = FALSE

\* the ParDo hands line i to process: the next line of the file, or a
\* line it has handed over before
Process ==
    /\ ~flRaised
    /\ \E i \in DOMAIN flLines :
         /\ \A j \in 1..(i - 1) : flCalls[j] >= 1
         /\ flCalls[i] >= 1 => SumSeq(flCalls) < Len(flLines) + MaxRetries
         /\ flCalls[i] >= 1 => \A j \in DOMAIN flLines : flCalls[j] >= 1
         /\ LET res == process(scanType, flLines[i], flUuids)
            IN  /\ flRows' = flRows \cup
                      {[line |-> i, call |-> flCalls[i] + 1,
                        family |-> r.family, idx |-> r.idx,
                        measurement_id |-> r.measurement_id] :
                          r \in res.rows}
                /\ flUuids' = res.draws
                /\ flRaised' = res.raised
         /\ flCalls' = [flCalls EXCEPT ![i] = @ + 1]
    /\ UNCHANGED <<flLines, selectVars, joinVars, runVars>>

FlattenNext == Process

FlattenSpec == FlattenInit /\ [][FlattenNext]_vars

\* the rows that call c on line i yielded
RowsOfCall(i, c) == {r \in flRows : r.line = i /\ r.call = c}

\* every line of the file was handed to process
AllLinesProcessed == \A i \in DOMAIN flLines : flCalls[i] >= 1

\* C14: a line that json.loads rejects makes process yield no row and
\* raise nothing: whatever lines were processed, no call raised, the
\* calls on malformed lines yielded nothing and every call on a valid line
\* yielded the rows of that line.
C14_MalformedLineSkipped ==
    /\ ~flRaised
    /\ \A i \in DOMAIN flLines : \A c \in 1..(1 + MaxRetries) :
         Cardinality(RowsOfCall(i, c)) =
            IF c <= flCalls[i] /\ flLines[i].json
            THEN flLines[i].results ELSE 0

\* a file with one malformed line among two valid lines that have rows
\* was processed to the end
C14_Witness ==
    /\ AllLinesProcessed
    /\ Cardinality({i \in DOMAIN flLines : ~flLines[i].json}) = 1
    /\ Cardinality({i \in DOMAIN flLines :
                      flLines[i].json /\ flLines[i].results >= 1}) = 2
    /\ ~flLines[2].json
    /\ flRows # {}
    /\ ~flRaised

\* C15: the rows of one process call carry one measurement_id, rows of two
\* different calls (on different lines, on lines of identical content, or
\* on the same line again) carry different ones, and one id is drawn per
\* call that parsed its line.
C15_MeasurementIdPerCall ==
    /\ \A r1, r2 \in flRows :
         (r1.line = r2.line /\ r1.call = r2.call)
            <=> r1.measurement_id = r2.measurement_id
    /\ flUuids = SumSeq([i \in DOMAIN flLines |->
                           IF flLines[i].json THEN flCalls[i] ELSE 0])

\* two lines of identical content with several rows each were processed,
\* the first of them twice
C15_Witness ==
    /\ Len(flLines) >= 2
    /\ flLines[1] = flLines[2]
    /\ flLines[1].results >= 2
    /\ flCalls[1] = 2
    /\ flCalls[2] >= 1
    /\ Cardinality(flRows) >= 6

(***************************************************************************)
(* Claim about the lifetime of the metadata providers (the join, Spec).    *)
(***************************************************************************)
\* C16: every chooser made for a date is released: once the join is over
\* (every _add_ip_metadata call has returned, or the pipeline has failed)
\* no chooser that the run opened is still open.
C16_ProvidersReleased ==
    stage \in {"done", "failed"} => opened = {}

(***************************************************************************)
(* Claims about what runs leave at the destination.                        *)
(***************************************************************************)
\* C17: after a successful non-incremental run that loaded files the
\* destination holds only rows that this run produced, with a table and
\* with a file tree as the destination; after a successful incremental
\* run the destination holds the rows it held before, unchanged, and the
\* rows of the run.
C17_FullReloadReplaces ==
    (RunOver /\ outcome = "success") =>
        IF incremental
        THEN /\ destBefore \subseteq dest
             /\ dest \ destBefore = NewRows(produced, runNo, incremental)
        ELSE HasNewFiles(result.value) => \A e \in dest : e.run = runNo

\* the sources of the files a run selected
SelectedSources(new_filenames) ==
    {source_from_filename(p) : p \in SeqRange(new_filenames)}

\* the current run is an incremental run that has its selection and is
\* not over
IncrementalSelection == pc # "idle" /\ RunSelected /\ incremental

\* the current run repeats the run before it: that run was incremental and
\* successful, and the current one is incremental, has the same arguments
\* and sees the same listing
RepeatedRun ==
    /\ IncrementalSelection
    /\ prev # None
    /\ prev.run = runNo - 1
    /\ prev.outcome = "success"
    /\ prev.incremental
    /\ prev.exportGcs = exportGcs
    /\ prev.startDate = startDate
    /\ prev.listing = listing

\* once rows of a source are at the destination no incremental run selects
\* a file of that source, and no source has rows of two runs the later of
\* which was incremental
CommittedSourcesExcluded ==
    /\ IncrementalSelection =>
          SelectedSources(result.value) \cap {e.source : e \in destBefore}
             = {}
    /\ \A e1, e2 \in dest :
          (e1.source = e2.source /\ e1.run < e2.run) => ~e2.incr

\* C18 as stated: no source is ingested twice over incremental runs, every
\* later incremental selection excludes the sources with committed rows,
\* and an incremental run repeated right after a successful one with an
\* unchanged listing selects no files.
C18_RepeatedRunSelectsNothing ==
    /\ CommittedSourcesExcluded
    /\ RepeatedRun => result.value = <<>>

\* C18, amended: no source is ingested twice over incremental runs, every
\* later incremental selection excludes the sources with committed rows,
\* and an incremental run repeated right after a successful one with an
\* unchanged listing selects exactly the files the earlier run selected
\* whose source got no row committed; it selects no files when every
\* source the earlier run selected had a row committed.
C18_NoSourceIngestedTwice ==
    /\ CommittedSourcesExcluded
    /\ RepeatedRun =>
          /\ SeqRange(result.value) =
                {p \in SeqRange(prev.selected) :
                    source_from_filename(p) \notin prev.produced}
          /\ SelectedSources(prev.selected) \subseteq prev.produced
                => result.value = <<>>

\* a repeated incremental run selects again the file that gave no row to
\* the run before it, and not the file whose rows that run committed
C18_Witness ==
    /\ RepeatedRun
    /\ prev.produced # {}
    /\ result.value # <<>>
    /\ SelectedSources(result.value) \cap {e.source : e \in dest} = {}
    /\ Len(prev.selected) > Len(result.value)

====
